---------------------------- MODULE Spec2Model ----------------------------
(***************************************************************************)
(* EC2-Other cost audit (AWS/cost_audit_v2.py): main() validates the       *)
(* region, builds an EC2CostAuditor and runs run_audit(), which calls the  *)
(* four collectors and the summary builder in a fixed order, accumulating  *)
(* report tables in sheets_data, and finally write_excel_file().           *)
(*                                                                         *)
(* Modelling conventions                                                   *)
(*  - a Python dict is a TLA+ function; d.get(k, default) is Get.          *)
(*  - a str that the program inspects character by character (the region)  *)
(*    is a sequence of one-character strings.                              *)
(*  - a spreadsheet cell value is a record [k, s, n, l]: k is the Python   *)
(*    type ("str", "int", "bool", "float"), s the text of a str, n the     *)
(*    number (an int, a bool as 0/1, a float of two decimals in cents, the *)
(*    number that ends an identifier or a formatted time), l the parts of  *)
(*    a joined str.                                                        *)
(*  - a timestamp is an integer number of days; timedelta(days=90) is 90.  *)
(*  - a Python float is a binary64 value mant * 2^exp with mant an         *)
(*    unbounded natural held in base-2^16 limbs, least significant first.  *)
(***************************************************************************)
EXTENDS Integers, Naturals, Sequences, FiniteSets, TLC

\* ------------------------------------------------------------------ bounds
\* longest region string drawn from the alphabet {"a", "-"}
MaxRegionLen == 3
\* largest volume size (GiB) of the enumerated range 1..MaxSize
MaxSize == 3
\* largest number of records in the account's inventory (all four listings)
MaxRecords == 3

\* the most method calls made on an auditor that is used as an object
MaxRuns == 3

\* ------------------------------------------------------- generic helpers
SeqsUpTo(S, n) == UNION {[1..k -> S] : k \in 0..n}

Get(d, key, default) == IF key \in DOMAIN d THEN d[key] ELSE default

\* cell values
StrCell(x) == [k |-> "str", s |-> x, n |-> 0, l |-> <<>>]
IntCell(x) == [k |-> "int", s |-> "", n |-> x, l |-> <<>>]
BoolCell(b) == [k |-> "bool", s |-> "", n |-> IF b THEN 1 ELSE 0, l |-> <<>>]
\* a float with two decimals, n in cents
FloatCell(cents) == [k |-> "float", s |-> "", n |-> cents, l |-> <<>>]
\* an identifier string: the prefix followed by the number i ("vol-" 1)
Id(prefix, i) == [k |-> "str", s |-> prefix, n |-> i, l |-> <<>>]
\* datetime.strftime('%Y-%m-%d %H:%M:%S'): the text of timestamp t
Strftime(t) == [k |-> "str", s |-> "%Y-%m-%d %H:%M:%S", n |-> t, l |-> <<>>]
\* sep.join(parts): '' for no part, the part itself for one part, and for
\* more the str made of the parts (str cells) in order with sep in between
Join(sep, parts) ==
    IF Len(parts) = 0 THEN StrCell("")
    ELSE IF Len(parts) = 1 THEN parts[1]
    ELSE [k |-> "str", s |-> sep, n |-> 0, l |-> parts]

\* ------------------------------------------------- binary64 arithmetic
\* limb base
LimbBase == 2 ^ 16

RECURSIVE BigNorm(_)
\* drop the most significant zero limbs
BigNorm(a) ==
    IF Len(a) > 0 /\ a[Len(a)] = 0 THEN BigNorm(SubSeq(a, 1, Len(a) - 1)) ELSE a

RECURSIVE BigMulCarry(_, _, _)
BigMulCarry(a, m, carry) ==
    IF Len(a) = 0
    THEN IF carry = 0 THEN <<>>
         ELSE <<carry % LimbBase>> \o BigMulCarry(<<>>, m, carry \div LimbBase)
    ELSE LET p == a[1] * m + carry
         IN  <<p % LimbBase>> \o BigMulCarry(Tail(a), m, p \div LimbBase)

\* a * m for a small natural m (m < 2^15)
BigMul(a, m) == BigNorm(BigMulCarry(a, m, 0))

RECURSIVE BigAddCarry(_, _)
BigAddCarry(a, carry) ==
    IF carry = 0 THEN a
    ELSE IF Len(a) = 0 THEN <<carry>>
    ELSE LET t == a[1] + carry
         IN  <<t % LimbBase>> \o BigAddCarry(Tail(a), t \div LimbBase)

\* the natural n (n < 2^31) as limbs
BigOfInt(n) == BigNorm(<<n % LimbBase, n \div LimbBase>>)

RECURSIVE BigToInt(_)
BigToInt(a) == IF Len(a) = 0 THEN 0 ELSE a[1] + LimbBase * BigToInt(Tail(a))

\* a * 2^e
BigShl(a, e) ==
    IF Len(a) = 0 THEN <<>>
    ELSE [i \in 1..(e \div 16) |-> 0] \o BigMul(a, 2 ^ (e % 16))

\* floor(a / 2^e), where the quotient is below 2^31
BigShrInt(a, e) ==
    IF Len(a) <= e \div 16 THEN 0
    ELSE BigToInt(SubSeq(a, (e \div 16) + 1, Len(a))) \div (2 ^ (e % 16))

RECURSIVE BigCmp(_, _)
\* -1, 0, 1 as a < b, a = b, a > b (both normalised)
BigCmp(a, b) ==
    IF Len(a) # Len(b) THEN (IF Len(a) < Len(b) THEN -1 ELSE 1)
    ELSE IF Len(a) = 0 THEN 0
    ELSE IF a[Len(a)] # b[Len(b)] THEN (IF a[Len(a)] < b[Len(b)] THEN -1 ELSE 1)
    ELSE BigCmp(SubSeq(a, 1, Len(a) - 1), SubSeq(b, 1, Len(b) - 1))

RECURSIVE IntBitLen(_)
IntBitLen(n) == IF n = 0 THEN 0 ELSE 1 + IntBitLen(n \div 2)

\* number of significant bits of a (normalised)
BigBitLen(a) == IF Len(a) = 0 THEN 0 ELSE 16 * (Len(a) - 1) + IntBitLen(a[Len(a)])

\* a rounded to the 53 significant bits of a binary64 significand, ties to
\* even (at most 16 bits are dropped: the operands here are a 53-bit
\* significand times a size < 2^15)
RoundToMant(a) ==
    LET drop == BigBitLen(a) - 53
    IN  IF drop <= 0 THEN a
        ELSE LET unit == 2 ^ drop
                 rem == IF drop = 16 THEN a[1] ELSE a[1] % unit
                 odd == IF drop = 16 THEN a[2] % 2 = 1
                        ELSE (a[1] \div unit) % 2 = 1
                 down == [a EXCEPT ![1] = a[1] - rem]
                 up == BigNorm(BigAddCarry(down, unit))
             IN  IF 2 * rem < unit THEN down
                 ELSE IF 2 * rem > unit THEN up
                 ELSE IF odd THEN up ELSE down

\* The binary64 values of the literals of the program: mant * 2^(-scale) is the
\* double nearest to milli / 1000.
\* 0.10 = 7205759403792794 * 2^-56
Double_0_10 == [milli |-> 100, mant |-> <<39322, 39321, 39321, 25>>, scale |-> 56]
\* 0.08 = 5764607523034235 * 2^-56
Double_0_08 == [milli |-> 80, mant |-> <<5243, 18350, 31457, 20>>, scale |-> 56]
\* 0.125 = 4503599627370496 * 2^-55 (exact)
Double_0_125 == [milli |-> 125, mant |-> <<0, 0, 0, 16>>, scale |-> 55]
\* 0.045 = 6485183463413514 * 2^-57
Double_0_045 == [milli |-> 45, mant |-> <<55050, 28835, 2621, 23>>, scale |-> 57]
\* 0.015 = 8646911284551352 * 2^-59
Double_0_015 == [milli |-> 15, mant |-> <<7864, 60293, 47185, 30>>, scale |-> 59]
\* 0.05 = 7205759403792794 * 2^-57
Double_0_05 == [milli |-> 50, mant |-> <<39322, 39321, 39321, 25>>, scale |-> 57]

\* Python `n * d` for an int n >= 0 and a float d: the exact product
\* rounded to binary64
FloatMul(n, d) ==
    [mant |-> RoundToMant(BigMul(d.mant, n)), scale |-> d.scale]

\* Python round(x, 2) for a float x >= 0, in cents: the exact binary value of
\* x is rounded to two decimals, an exact tie going to the even cent
Round2(x) ==
    LET scaled == BigMul(x.mant, 100)
        q == BigShrInt(scaled, x.scale)
        c == BigCmp(BigMul(scaled, 2), BigShl(BigOfInt(2 * q + 1), x.scale))
    IN  IF c < 0 THEN q
        ELSE IF c > 0 THEN q + 1
        ELSE IF q % 2 = 0 THEN q ELSE q + 1

\* ------------------------------------------------------ region validation
RECURSIVE SplitFrom(_, _, _)
\* the components of s after `cur` has been read of the current component
SplitFrom(s, sep, cur) ==
    IF Len(s) = 0 THEN <<cur>>
    ELSE IF s[1] = sep THEN <<cur>> \o SplitFrom(Tail(s), sep, <<>>)
    ELSE SplitFrom(Tail(s), sep, Append(cur, s[1]))

\* str.split(sep) for a one-character separator
Split(s, sep) == SplitFrom(s, sep, <<>>)

\* a validation that asks for two components only
RegionFormatValidTwo(r) == ~(Len(r) = 0 \/ Len(Split(r, "-")) < 2)

\* main: `not args.region or len(args.region.split('-')) < 3` is the invalid case
RegionFormatValid(r) == ~(Len(r) = 0 \/ Len(Split(r, "-")) < 3)

\* ------------------------------------------------------------ collectors
NA == StrCell("N/A")

RECURSIVE FirstTag(_, _)
\* the loop of get_tag_value (lines 42-45): tag.get('Key') is None for a tag
\* without a key, which equals no key
FirstTag(tags, key) ==
    IF Len(tags) = 0 THEN NA
    ELSE IF "Key" \in DOMAIN tags[1] /\ tags[1]["Key"] = key
         THEN Get(tags[1], "Value", NA)
    ELSE FirstTag(Tail(tags), key)

\* EC2CostAuditor.get_tag_value
get_tag_value(tags, key) == IF Len(tags) = 0 THEN NA ELSE FirstTag(tags, key)

\* the rate of a volume type: cost_per_gb.get(volume_type, 0.045)
cost_per_gb(volume_type) ==
    CASE volume_type = "gp2" -> Double_0_10
      [] volume_type = "gp3" -> Double_0_08
      [] volume_type = "io1" -> Double_0_125
      [] volume_type = "io2" -> Double_0_125
      [] volume_type = "st1" -> Double_0_045
      [] volume_type = "sc1" -> Double_0_015
      [] OTHER -> Double_0_045

\* EC2CostAuditor.calculate_ebs_cost, in cents
calculate_ebs_cost(size_gb, volume_type) ==
    Round2(FloatMul(size_gb, cost_per_gb(volume_type)))

\* instance_id of a volume (line 85)
VolumeInstanceId(volume) ==
    LET attachments == Get(volume, "Attachments", <<>>)
    IN  IF Len(attachments) > 0 THEN attachments[1].InstanceId
        ELSE StrCell("unattached")

\* device of a volume (line 86)
VolumeDevice(volume) ==
    LET attachments == Get(volume, "Attachments", <<>>)
    IN  IF Len(attachments) > 0 THEN attachments[1].Device ELSE StrCell("none")

VolumeName(volume) == get_tag_value(Get(volume, "Tags", <<>>), StrCell("Name"))

\* the row of EBS_Volumes_All (lines 89-92)
AllVolumesRow(volume) ==
    << volume.VolumeId, VolumeName(volume), IntCell(volume.Size),
       StrCell(volume.VolumeType), StrCell(volume.State),
       VolumeInstanceId(volume), VolumeDevice(volume),
       Strftime(volume.CreateTime),
       Get(volume, "Iops", NA), Get(volume, "Throughput", NA),
       Get(volume, "Encrypted", BoolCell(FALSE)),
       StrCell(volume.AvailabilityZone) >>

\* an unattached table decided by the attachment list instead of the state
IsUnattachedVolumeByAttachment(volume) == Len(Get(volume, "Attachments", <<>>)) = 0

\* the condition of the unattached table (line 95)
IsUnattachedVolume(volume) == volume.State = "available"

\* the row of EBS_Volumes_Unattached (lines 96-99)
UnattachedVolumeRow(volume) ==
    << volume.VolumeId, VolumeName(volume), IntCell(volume.Size),
       StrCell(volume.VolumeType), Strftime(volume.CreateTime),
       FloatCell(calculate_ebs_cost(volume.Size, volume.VolumeType)) >>

\* a migration table that lists the unattached gp2 volumes only
IsGp2VolumeAvailable(volume) ==
    volume.VolumeType = "gp2" /\ volume.State = "available"

\* the condition of the migration table (line 102)
IsGp2Volume(volume) == volume.VolumeType = "gp2"

\* gp2_cost, gp3_cost (lines 103-104), in cents
Gp2Cost(size) == Round2(FloatMul(size, Double_0_10))
Gp3Cost(size) == Round2(FloatMul(size, Double_0_08))
\* savings = round(gp2_cost - gp3_cost, 2) (line 105): the difference of two
\* floats of two decimals, rounded to two decimals, in cents
Gp2Savings(size) == Gp2Cost(size) - Gp3Cost(size)

\* the row of EBS_GP2_Migration (lines 103-108)
Gp2MigrationRow(volume) ==
    << volume.VolumeId, VolumeName(volume), IntCell(volume.Size),
       StrCell(volume.State), VolumeInstanceId(volume),
       FloatCell(Gp2Cost(volume.Size)), FloatCell(Gp3Cost(volume.Size)),
       FloatCell(Gp2Savings(volume.Size)) >>

Table(name, headers, data) == [name |-> name, headers |-> headers, data |-> data]

\* an assignment that drops the other keys of the dict
DictSetAlone(d, t) == << t >>

\* self.sheets_data[name] = {...}: a dict keeps the insertion order of its
\* keys, and an assignment to an existing key replaces its value in place
DictSet(d, t) ==
    IF \E i \in 1..Len(d) : d[i].name = t.name
    THEN [i \in 1..Len(d) |-> IF d[i].name = t.name THEN t ELSE d[i]]
    ELSE Append(d, t)

RECURSIVE DictSetAll(_, _)
DictSetAll(d, ts) ==
    IF Len(ts) = 0 THEN d ELSE DictSetAll(DictSet(d, ts[1]), Tail(ts))

\* the three tables stored by audit_ebs_volumes (lines 111-126): the loop
\* (lines 71-108) appends a row per volume, in listing order, to the first
\* table and to each of the other two whose condition the volume satisfies
VolumeTables(volumes) ==
    LET unattached == SelectSeq(volumes, IsUnattachedVolume)
        gp2 == SelectSeq(volumes, IsGp2Volume)
    IN
    << Table("EBS_Volumes_All",
             <<"VolumeId", "Name", "Size_GB", "VolumeType", "State", "InstanceId",
               "Device", "CreateTime", "Iops", "Throughput", "Encrypted",
               "AvailabilityZone">>,
             [i \in 1..Len(volumes) |-> AllVolumesRow(volumes[i])]),
       Table("EBS_Volumes_Unattached",
             <<"VolumeId", "Name", "Size_GB", "VolumeType", "CreateTime",
               "EstimatedMonthlyCost_USD">>,
             [i \in 1..Len(unattached) |-> UnattachedVolumeRow(unattached[i])]),
       Table("EBS_GP2_Migration",
             <<"VolumeId", "Name", "Size_GB", "State", "InstanceId",
               "GP2_Monthly_Cost", "GP3_Monthly_Cost", "Monthly_Savings">>,
             [i \in 1..Len(gp2) |-> Gp2MigrationRow(gp2[i])]) >>

\* timedelta(days=90) (line 137)
NinetyDays == 90

\* the cost of a snapshot: round(volume_size * 0.05, 2) (line 150), in cents
SnapshotCost(volume_size) == Round2(FloatMul(volume_size, Double_0_05))

SnapshotName(snapshot) == get_tag_value(Get(snapshot, "Tags", <<>>), StrCell("Name"))

\* the row of EBS_Snapshots_All (lines 153-156)
AllSnapshotsRow(snapshot) ==
    << snapshot.SnapshotId, SnapshotName(snapshot), Get(snapshot, "VolumeId", NA),
       IntCell(snapshot.VolumeSize), Strftime(snapshot.StartTime),
       Get(snapshot, "Description", NA), StrCell(snapshot.State),
       Get(snapshot, "Progress", NA), Get(snapshot, "Encrypted", BoolCell(FALSE)),
       FloatCell(SnapshotCost(snapshot.VolumeSize)) >>

\* an age test that takes a snapshot started at the cutoff for an old one
IsOldSnapshotInclusive(snapshot, ninety_days_ago) ==
    snapshot.StartTime <= ninety_days_ago

\* the condition of the old-snapshots table (line 159)
IsOldSnapshot(snapshot, ninety_days_ago) == snapshot.StartTime < ninety_days_ago

\* a row of EBS_Snapshots_Old that keeps the state column
OldSnapshotsRowWithState(snapshot) ==
    << snapshot.SnapshotId, SnapshotName(snapshot), Get(snapshot, "VolumeId", NA),
       IntCell(snapshot.VolumeSize), Strftime(snapshot.StartTime),
       Get(snapshot, "Description", NA), StrCell(snapshot.State),
       FloatCell(SnapshotCost(snapshot.VolumeSize)) >>

\* the row of EBS_Snapshots_Old (lines 160-163)
OldSnapshotsRow(snapshot) ==
    << snapshot.SnapshotId, SnapshotName(snapshot), Get(snapshot, "VolumeId", NA),
       IntCell(snapshot.VolumeSize), Strftime(snapshot.StartTime),
       Get(snapshot, "Description", NA),
       FloatCell(SnapshotCost(snapshot.VolumeSize)) >>

\* the two tables stored by audit_ebs_snapshots (lines 166-176), the clock
\* reading utcnow at line 137
SnapshotTables(snapshots, utcnow) ==
    LET ninety_days_ago == utcnow - NinetyDays
        old == SelectSeq(snapshots, LAMBDA sn : IsOldSnapshot(sn, ninety_days_ago))
    IN  << Table("EBS_Snapshots_All",
                 <<"SnapshotId", "Name", "VolumeId", "VolumeSize_GB", "StartTime",
                   "Description", "State", "Progress", "Encrypted",
                   "EstimatedMonthlyCost_USD">>,
                 [i \in 1..Len(snapshots) |-> AllSnapshotsRow(snapshots[i])]),
           Table("EBS_Snapshots_Old",
                 <<"SnapshotId", "Name", "VolumeId", "VolumeSize_GB", "StartTime",
                   "Description", "EstimatedMonthlyCost_USD">>,
                 [i \in 1..Len(old) |-> OldSnapshotsRow(old[i])]) >>

\* the monthly cost of an unassociated address, 3.65, in cents (lines 197, 208)
EipMonthlyCents == 365

AddressName(address) == get_tag_value(Get(address, "Tags", <<>>), StrCell("Name"))

\* association_id (line 194)
AssociationId(address) == Get(address, "AssociationId", StrCell("unattached"))

\* an unattached-IPs table decided by the instance id
IsUnattachedAddressByInstance(address) == "InstanceId" \notin DOMAIN address

\* the condition of the unattached-IPs table (line 206)
IsUnattachedAddress(address) == AssociationId(address) = StrCell("unattached")

\* status (line 196)
AddressStatus(address) ==
    IF AssociationId(address) # StrCell("unattached") THEN StrCell("attached")
    ELSE StrCell("UNATTACHED")

\* cost (line 197): the float 3.65 or the int 0
AddressCost(address) ==
    IF AssociationId(address) = StrCell("unattached") THEN FloatCell(EipMonthlyCents)
    ELSE IntCell(0)

\* the row of Elastic_IPs_All (lines 200-203)
AllIpsRow(address) ==
    << address.AllocationId, AddressName(address), address.PublicIp,
       StrCell(address.Domain), Get(address, "InstanceId", StrCell("none")),
       AssociationId(address), Get(address, "NetworkInterfaceId", StrCell("none")),
       AddressStatus(address), AddressCost(address) >>

\* the row of Elastic_IPs_Unattached (lines 207-209)
UnattachedIpsRow(address) ==
    << address.AllocationId, AddressName(address), address.PublicIp,
       StrCell(address.Domain), FloatCell(EipMonthlyCents) >>

\* the two tables stored by audit_elastic_ips (lines 212-221)
AddressTables(addresses) ==
    LET unattached == SelectSeq(addresses, IsUnattachedAddress)
    IN
    << Table("Elastic_IPs_All",
             <<"AllocationId", "Name", "PublicIp", "Domain", "InstanceId",
               "AssociationId", "NetworkInterfaceId", "Status", "Monthly_Cost_USD">>,
             [i \in 1..Len(addresses) |-> AllIpsRow(addresses[i])]),
       Table("Elastic_IPs_Unattached",
             <<"AllocationId", "Name", "PublicIp", "Domain", "Monthly_Waste_USD">>,
             [i \in 1..Len(unattached) |-> UnattachedIpsRow(unattached[i])]) >>

HasEbs(bdm) == "Ebs" \in DOMAIN bdm
EbsVolumeId(bdm) == bdm.Ebs.VolumeId

\* volume_ids of an instance (lines 240-243)
InstanceVolumeIds(instance) ==
    LET ebs == SelectSeq(Get(instance, "BlockDeviceMappings", <<>>), HasEbs)
    IN  [i \in 1..Len(ebs) |-> EbsVolumeId(ebs[i])]

\* the row of EC2_Instances (lines 245-248)
InstanceRow(instance) ==
    << instance.InstanceId,
       get_tag_value(Get(instance, "Tags", <<>>), StrCell("Name")),
       StrCell(instance.InstanceType), StrCell(instance.State.Name),
       Strftime(instance.LaunchTime), Get(instance, "Platform", StrCell("linux")),
       IntCell(Len(InstanceVolumeIds(instance))),
       Join(";", InstanceVolumeIds(instance)) >>

RECURSIVE ReservationRows(_)
\* the nested loops over reservations and their instances (lines 230-248)
ReservationRows(reservations) ==
    IF Len(reservations) = 0 THEN <<>>
    ELSE [i \in 1..Len(reservations[1].Instances) |->
             InstanceRow(reservations[1].Instances[i])]
         \o ReservationRows(Tail(reservations))

\* the table stored by audit_ec2_instances (lines 251-255)
InstanceTables(reservations) ==
    << Table("EC2_Instances",
             <<"InstanceId", "Name", "InstanceType", "State", "LaunchTime",
               "Platform", "AttachedVolumeCount", "VolumeIds">>,
             ReservationRows(reservations)) >>

SummaryRow(category, percent) ==
    << StrCell(category), StrCell("CALCULATED"), StrCell("CALCULATED"),
       StrCell(percent) >>

\* the table stored by generate_cost_summary (lines 261-274)
SummaryTables ==
    << Table("Cost_Summary",
             <<"Category", "Current_Monthly_Cost_USD",
               "Optimization_Opportunity_USD", "Potential_Savings_Percent">>,
             << SummaryRow("Unattached_EBS_Volumes", "100%"),
                SummaryRow("GP2_to_GP3_Migration", "20%"),
                SummaryRow("Unattached_Elastic_IPs", "100%"),
                SummaryRow("Old_Snapshots_90days", "80%"),
                SummaryRow("Total_EC2_Other_Optimization", "40%") >>) >>

\* ---------------------------------------------------------- report writer
\* data rows written from row 1 (enumerate(..., 1)): the first one replaces
\* the headers
SheetCellsFromRow1(headers, data) ==
    LET headerAt == {<<1, col>> : col \in 1..Len(headers)}
        dataAt == UNION {{<<i, col>> : col \in 1..Len(data[i])} : i \in 1..Len(data)}
    IN  [at \in headerAt \cup dataAt |->
            IF at[1] <= Len(data) /\ at[2] <= Len(data[at[1]])
            THEN data[at[1]][at[2]] ELSE StrCell(headers[at[2]])]

\* the cells ws.cell(row, column, value) sets for one table (lines 331-339):
\* the headers in row 1 from column 1, data row i in row i + 1 from column 1
SheetCells(headers, data) ==
    LET headerAt == {<<1, col>> : col \in 1..Len(headers)}
        dataAt == UNION {{<<i + 1, col>> : col \in 1..Len(data[i])} : i \in 1..Len(data)}
    IN  [at \in headerAt \cup dataAt |->
            IF at[1] = 1 THEN StrCell(headers[at[2]]) ELSE data[at[1] - 1][at[2]]]

\* the worksheet create_sheet(title=sheet_name) returns, filled (lines 327-339)
Sheet(table) == [title |-> table.name, cells |-> SheetCells(table.headers, table.data)]

\* the worksheets write_excel_file adds to the workbook, one per item of
\* sheets_data in the order of the dict (lines 325-352; the fonts, fills and
\* column widths do not change the values)
Sheets(d) == [i \in 1..Len(d) |-> Sheet(d[i])]

\* ------------------------------------------------ the inputs of a run
\* --region: the examples "us-east-1", "useast1", "us-east", and every string
\* over {"a", "-"} up to MaxRegionLen
ExampleRegions ==
    { <<"u", "s", "-", "e", "a", "s", "t", "-", "1">>,
      <<"u", "s", "e", "a", "s", "t", "1">>,
      <<"u", "s", "-", "e", "a", "s", "t">> }

\* ("--" is left out: argparse reads it as its end-of-options marker and does
\* not deliver it as the value of --region)
Regions ==
    (SeqsUpTo({"a", "-"}, MaxRegionLen) \ { <<"-", "-">> }) \cup ExampleRegions

\* the readings of the clock (days) at line 137
NowTimes == {20000, 20001}
Today == CHOOSE t \in NowTimes : \A u \in NowTimes : t <= u

VolumeTypes == {"gp2", "gp3", "io1", "io2", "st1", "sc1", "standard"}
Sizes == (1..MaxSize) \cup {100}

\* a volume of describe_volumes()['Volumes'], the i-th of the listing
MakeVolume(i, kind) ==
    (IF kind.named
     THEN "Tags" :> << [Key |-> StrCell("env"), Value |-> StrCell("prod")],
                       [Key |-> StrCell("Name"), Value |-> StrCell("data")] >>
          @@ "Encrypted" :> BoolCell(TRUE)
     ELSE <<>>)
    @@ (IF kind.type \in {"gp2", "gp3", "io1", "io2"}
        THEN "Iops" :> IntCell(3000) ELSE <<>>)
    @@ (IF kind.type = "gp3" THEN "Throughput" :> IntCell(125) ELSE <<>>)
    @@ [ VolumeId |-> Id("vol-", i), Size |-> kind.size, VolumeType |-> kind.type,
         State |-> kind.state, CreateTime |-> Today - 10,
         AvailabilityZone |-> "us-east-1a",
         Attachments |-> IF kind.attached
                         THEN << [InstanceId |-> Id("i-", 1),
                                  Device |-> StrCell("/dev/sdf")] >>
                         ELSE <<>> ]

MakeVolumes(kinds) == [i \in 1..Len(kinds) |-> MakeVolume(i, kinds[i])]

\* an unattached gp2 volume of 50 GiB and an attached gp3 volume of 100 GiB
BasicVolumeKinds ==
    { [size |-> 50, type |-> "gp2", state |-> "available", attached |-> FALSE,
       named |-> FALSE],
      [size |-> 100, type |-> "gp3", state |-> "in-use", attached |-> TRUE,
       named |-> TRUE] }

\* every size, type, state and attachment
RichVolumeKinds ==
    [size : Sizes, type : VolumeTypes, state : {"available", "in-use"},
     attached : BOOLEAN, named : {TRUE}]

\* a snapshot of describe_snapshots()['Snapshots'], the i-th of the listing
MakeSnapshot(i, kind) ==
    (IF kind.full
     THEN "Tags" :> << [Key |-> StrCell("Name"), Value |-> StrCell("backup")] >>
          @@ "VolumeId" :> Id("vol-", i)
          @@ "Description" :> StrCell("nightly")
          @@ "Progress" :> StrCell("100%")
          @@ "Encrypted" :> BoolCell(TRUE)
     ELSE <<>>)
    @@ [ SnapshotId |-> Id("snap-", i), VolumeSize |-> 20,
         StartTime |-> Today - kind.age, State |-> "completed" ]

MakeSnapshots(kinds) == [i \in 1..Len(kinds) |-> MakeSnapshot(i, kinds[i])]

\* snapshots started 91, 90 and 89 days before Today
SnapshotKinds ==
    { [age |-> NinetyDays + 1, full |-> FALSE], [age |-> NinetyDays, full |-> TRUE],
      [age |-> NinetyDays - 1, full |-> TRUE] }

\* an address of describe_addresses()['Addresses'], the i-th of the listing
MakeAddress(i, kind) ==
    (IF kind.associated
     THEN "AssociationId" :> Id("eipassoc-", i)
          @@ "NetworkInterfaceId" :> Id("eni-", i)
          @@ "Tags" :> << [Key |-> StrCell("Name"), Value |-> StrCell("web")] >>
     ELSE <<>>)
    @@ (IF kind.instance THEN "InstanceId" :> Id("i-", i) ELSE <<>>)
    @@ [ AllocationId |-> Id("eipalloc-", i), PublicIp |-> Id("203.0.113.", i),
         Domain |-> "vpc" ]

MakeAddresses(kinds) == [i \in 1..Len(kinds) |-> MakeAddress(i, kinds[i])]

\* unassociated, associated with an instance, associated with a network
\* interface of no instance
AddressKinds ==
    { [associated |-> FALSE, instance |-> FALSE],
      [associated |-> TRUE, instance |-> TRUE],
      [associated |-> TRUE, instance |-> FALSE] }

\* an instance of a reservation of describe_instances(), the i-th listed
MakeInstance(i, kind) ==
    (IF kind.windows
     THEN "Platform" :> StrCell("windows")
          @@ "Tags" :> << [Key |-> StrCell("Name"), Value |-> StrCell("app")] >>
          @@ "BlockDeviceMappings" :>
                << [DeviceName |-> StrCell("/dev/sda1"),
                    Ebs |-> [VolumeId |-> Id("vol-", 1)]],
                   [DeviceName |-> StrCell("ephemeral0")],
                   [DeviceName |-> StrCell("/dev/sdf"),
                    Ebs |-> [VolumeId |-> Id("vol-", 2)]] >>
     ELSE IF kind.ebs
     THEN "BlockDeviceMappings" :>
                << [DeviceName |-> StrCell("/dev/sda1"),
                    Ebs |-> [VolumeId |-> Id("vol-", i)]] >>
     ELSE <<>>)
    @@ [ InstanceId |-> Id("i-", i), InstanceType |-> "t3.micro",
         State |-> [Name |-> "running"], LaunchTime |-> Today - 5 ]

MakeInstances(kinds) == [i \in 1..Len(kinds) |-> MakeInstance(i, kinds[i])]

\* an instance of one EBS volume, a named one of two EBS volumes and an
\* instance-store volume, and an instance of no block device mapping
InstanceKinds ==
    { [windows |-> FALSE, ebs |-> TRUE], [windows |-> TRUE, ebs |-> TRUE],
      [windows |-> FALSE, ebs |-> FALSE] }

\* the reservations that hold the instances: one for all, or one for each
Reservations(instances) ==
    IF Len(instances) = 0 THEN { <<>> }
    ELSE { << [Instances |-> instances] >>,
           [i \in 1..Len(instances) |-> [Instances |-> << instances[i] >>]] }

\* how many records of each kind an inventory of at most `max` records has
Splits(max) ==
    { sp \in [v : 0..max, s : 0..max, a : 0..max, i : 0..max] :
        sp.v + sp.s + sp.a + sp.i <= max }

\* the inventories of the account: at most MaxRecords records
Inventories ==
    UNION { { [ Volumes |-> MakeVolumes(vk), Snapshots |-> MakeSnapshots(sk),
                Addresses |-> MakeAddresses(ak), Reservations |-> rs ] :
                vk \in [1..sp.v -> BasicVolumeKinds],
                sk \in [1..sp.s -> SnapshotKinds],
                ak \in [1..sp.a -> AddressKinds],
                rs \in UNION { Reservations(MakeInstances(ik)) :
                                  ik \in [1..sp.i -> InstanceKinds] } } :
            sp \in Splits(MaxRecords) }

\* the inventories of at most one record
SingleRecordInventories ==
    { inv \in Inventories :
        Len(inv.Volumes) + Len(inv.Snapshots) + Len(inv.Addresses)
           + Len(inv.Reservations) <= 1 }

\* an inventory of one record of each kind: an unattached gp2 volume, a
\* snapshot older than the cutoff, an unassociated address, an instance
OneOfEachInventory ==
    [ Volumes |-> MakeVolumes(<< [size |-> 50, type |-> "gp2", state |-> "available",
                                  attached |-> FALSE, named |-> FALSE] >>),
      Snapshots |-> MakeSnapshots(<< [age |-> NinetyDays + 1, full |-> FALSE] >>),
      Addresses |-> MakeAddresses(<< [associated |-> FALSE, instance |-> FALSE] >>),
      Reservations |->
          << [Instances |-> MakeInstances(<< [windows |-> FALSE, ebs |-> TRUE] >>)] >> ]

\* the inventories in which one listing holds any records, at most MaxRecords,
\* and each of the other three holds one record
OneListingInventories ==
    UNION { { [OneOfEachInventory EXCEPT !.Volumes = MakeVolumes(vk)] :
                 vk \in [1..n -> BasicVolumeKinds] }
            \cup { [OneOfEachInventory EXCEPT !.Snapshots = MakeSnapshots(sk)] :
                      sk \in [1..n -> SnapshotKinds] }
            \cup { [OneOfEachInventory EXCEPT !.Addresses = MakeAddresses(ak)] :
                      ak \in [1..n -> AddressKinds] }
            \cup UNION { { [OneOfEachInventory EXCEPT !.Reservations = rs] :
                              rs \in Reservations(MakeInstances(ik)) } :
                           ik \in [1..n -> InstanceKinds] } :
            n \in 0..MaxRecords }

\* lists of n volumes of which at most one is not a basic one
VolumeKindLists(n) ==
    [1..n -> BasicVolumeKinds]
    \cup { [b EXCEPT ![at] = r] :
             b \in [1..n -> BasicVolumeKinds], at \in 1..n, r \in RichVolumeKinds }

\* the inventories that hold volumes only
VolumeInventories ==
    { [ Volumes |-> MakeVolumes(vk), Snapshots |-> <<>>, Addresses |-> <<>>,
        Reservations |-> <<>> ] :
        vk \in UNION { VolumeKindLists(n) : n \in 0..MaxRecords } }

\* ------------------------------------------------------------- the program
VARIABLES
    pc,           \* the statement main / run_audit is at
    region,       \* args.region
    inventory,    \* what the listing calls of the account return
    now,          \* the clock
    constructed,  \* EC2CostAuditor(...) has returned
    sheets_data,  \* self.sheets_data, in insertion order
    workbook,     \* the worksheets of self.workbook
    calls,        \* the listing calls issued to the EC2 client, in order
    invoked,      \* the methods invoked on the auditor, in order
    files,        \* the files created, in order; complete: written in full
    exit_code     \* <<>> while main runs, <<c>> once it has returned c

vars == << pc, region, inventory, now, constructed, sheets_data, workbook,
           calls, invoked, files, exit_code >>

Start ==
    /\ pc = "validate_region"
    /\ constructed = FALSE
    /\ sheets_data = <<>>
    /\ workbook = <<>>
    /\ calls = <<>>
    /\ invoked = <<>>
    /\ files = <<>>
    /\ exit_code = <<>>

\* a run on an example region and any inventory
Init ==
    /\ region \in ExampleRegions
    /\ now \in NowTimes
    /\ inventory \in Inventories
    /\ Start

\* a run on any region and an inventory of at most one record
InitRegions ==
    /\ region \in Regions
    /\ now = Today
    /\ inventory \in SingleRecordInventories
    /\ Start

\* a run on an example region and an inventory of volumes

InitVolumes ==
    /\ region \in ExampleRegions
    /\ now = Today
    /\ inventory \in VolumeInventories
    /\ Start

\* `return c` of main
Return(c) ==
    /\ pc' = "returned"
    /\ exit_code' = << c >>

\* main, lines 467-469: the region is malformed
RegionInvalid ==
    /\ pc = "validate_region"
    /\ ~RegionFormatValid(region)
    /\ Return(1)
    /\ UNCHANGED << region, inventory, now, constructed, sheets_data, workbook,
                    calls, invoked, files >>

\* main, lines 467-472: the region passes
RegionValid ==
    /\ pc = "validate_region"
    /\ RegionFormatValid(region)
    /\ pc' = "construct"
    /\ UNCHANGED << region, inventory, now, constructed, sheets_data, workbook,
                    calls, invoked, files, exit_code >>

\* EC2CostAuditor.__init__ (lines 18-36), then run_audit starts (line 474)
Construct ==
    /\ pc = "construct"
    /\ constructed' = TRUE
    /\ sheets_data' = <<>>
    /\ workbook' = <<>>
    /\ pc' = "audit_ebs_volumes"
    /\ UNCHANGED << region, inventory, now, calls, invoked, files, exit_code >>

\* the session or the client cannot be created (the profile does not exist):
\* the exception reaches main's handler (lines 475-483)
ConstructFails ==
    /\ pc = "construct"
    /\ Return(1)
    /\ UNCHANGED << region, inventory, now, constructed, sheets_data, workbook,
                    calls, invoked, files >>

\* a collector that issues its listing call a second time
CollectRetried(method, call, tables, next) ==
    /\ pc = method
    /\ invoked' = Append(invoked, method)
    /\ calls' = calls \o << call, call >>
    /\ sheets_data' = DictSetAll(sheets_data, tables)
    /\ pc' = next
    /\ UNCHANGED << region, inventory, now, constructed, workbook, files, exit_code >>

\* a collector whose listing call returns: it stores its tables
Collect(method, call, tables, next) ==
    /\ pc = method
    /\ invoked' = Append(invoked, method)
    /\ calls' = Append(calls, call)
    /\ sheets_data' = DictSetAll(sheets_data, tables)
    /\ pc' = next
    /\ UNCHANGED << region, inventory, now, constructed, workbook, files, exit_code >>

\* a failed listing call that is swallowed: the report of the collectors that
\* completed is written
CollectFailsSwallowed(method, call) ==
    /\ pc = method
    /\ invoked' = Append(invoked, method)
    /\ calls' = Append(calls, call)
    /\ pc' = "write_excel_file"
    /\ UNCHANGED << region, inventory, now, constructed, sheets_data, workbook,
                    files, exit_code >>

\* a collector whose listing call raises: the exception leaves run_audit and
\* reaches main's handler (lines 475-483)
CollectFails(method, call) ==
    /\ pc = method
    /\ invoked' = Append(invoked, method)
    /\ calls' = Append(calls, call)
    /\ Return(1)
    /\ UNCHANGED << region, inventory, now, constructed, sheets_data, workbook,
                    files >>

\* audit_ebs_volumes (lines 59-126)
AuditEbsVolumes ==
    Collect("audit_ebs_volumes", "describe_volumes",
            VolumeTables(inventory.Volumes), "audit_ebs_snapshots")

AuditEbsVolumesFails == CollectFails("audit_ebs_volumes", "describe_volumes")

\* audit_ebs_snapshots (lines 128-176)
AuditEbsSnapshots ==
    Collect("audit_ebs_snapshots", "describe_snapshots",
            SnapshotTables(inventory.Snapshots, now), "audit_elastic_ips")

AuditEbsSnapshotsFails == CollectFails("audit_ebs_snapshots", "describe_snapshots")

\* audit_elastic_ips (lines 178-221)
AuditElasticIps ==
    Collect("audit_elastic_ips", "describe_addresses",
            AddressTables(inventory.Addresses), "audit_ec2_instances")

AuditElasticIpsFails == CollectFails("audit_elastic_ips", "describe_addresses")

\* audit_ec2_instances (lines 223-255)
AuditEc2Instances ==
    Collect("audit_ec2_instances", "describe_instances",
            InstanceTables(inventory.Reservations), "generate_cost_summary")

AuditEc2InstancesFails == CollectFails("audit_ec2_instances", "describe_instances")

\* generate_cost_summary (lines 257-274), then generate_recommendations
\* (lines 276-321), which changes nothing
GenerateCostSummary ==
    /\ pc = "generate_cost_summary"
    /\ invoked' = invoked \o << "generate_cost_summary", "generate_recommendations" >>
    /\ sheets_data' = DictSetAll(sheets_data, SummaryTables)
    /\ pc' = "write_excel_file"
    /\ UNCHANGED << region, inventory, now, constructed, workbook, calls, files,
                    exit_code >>

\* write_excel_file, lines 325-355: the worksheets are filled and the
\* workbook is saved
WriteExcelFile ==
    /\ pc = "write_excel_file"
    /\ invoked' = Append(invoked, "write_excel_file")
    /\ workbook' = workbook \o Sheets(sheets_data)
    /\ files' = Append(files, [name |-> ".xlsx", sheets |-> workbook',
                               complete |-> TRUE])
    /\ pc' = "write_recommendations"
    /\ UNCHANGED << region, inventory, now, constructed, sheets_data, calls,
                    exit_code >>

\* write_excel_file, lines 325-355: workbook.save raises
WriteExcelFileFails ==
    /\ pc = "write_excel_file"
    /\ invoked' = Append(invoked, "write_excel_file")
    /\ workbook' = workbook \o Sheets(sheets_data)
    /\ Return(1)
    /\ UNCHANGED << region, inventory, now, constructed, sheets_data, calls, files >>

\* write_excel_file, lines 398-400: the recommendations are written; then
\* run_audit returns and main returns 0 (line 484)
WriteRecommendations ==
    /\ pc = "write_recommendations"
    /\ files' = Append(files, [name |-> "_recommendations.txt", sheets |-> <<>>,
                               complete |-> TRUE])
    /\ Return(0)
    /\ UNCHANGED << region, inventory, now, constructed, sheets_data, workbook,
                    calls, invoked >>

\* write_excel_file, line 399: open raises, no file is created; the
\* exception reaches main's handler (lines 475-483)
OpenRecommendationsFails ==
    /\ pc = "write_recommendations"
    /\ Return(1)
    /\ UNCHANGED << region, inventory, now, constructed, sheets_data, workbook,
                    calls, invoked, files >>

\* write_excel_file, lines 399-400: open has created the file and the write
\* (or the flush on leaving the with block) raises; the file stays, not
\* written in full, and the exception reaches main's handler (lines 475-483)
WriteRecommendationsFails ==
    /\ pc = "write_recommendations"
    /\ files' = Append(files, [name |-> "_recommendations.txt", sheets |-> <<>>,
                               complete |-> FALSE])
    /\ Return(1)
    /\ UNCHANGED << region, inventory, now, constructed, sheets_data, workbook,
                    calls, invoked >>

Next ==
    \/ RegionInvalid
    \/ RegionValid
    \/ Construct
    \/ ConstructFails
    \/ AuditEbsVolumes
    \/ AuditEbsVolumesFails
    \/ AuditEbsSnapshots
    \/ AuditEbsSnapshotsFails
    \/ AuditElasticIps
    \/ AuditElasticIpsFails
    \/ AuditEc2Instances
    \/ AuditEc2InstancesFails
    \/ GenerateCostSummary
    \/ WriteExcelFile
    \/ WriteExcelFileFails
    \/ WriteRecommendations
    \/ OpenRecommendationsFails
    \/ WriteRecommendationsFails

Spec == Init /\ [][Next]_vars

SpecRegions == InitRegions /\ [][Next]_vars

SpecVolumes == InitVolumes /\ [][Next]_vars

\* ------------------------------------------- the auditor used as an object
\* EC2CostAuditor(...) has returned (lines 18-36) and its caller, in place of
\* run_audit, invokes the collectors and the summary builder in any order
InitCollectors ==
    /\ region \in {r \in ExampleRegions : RegionFormatValid(r)}
    /\ now = Today
    /\ inventory \in OneListingInventories
    /\ pc = "caller"
    /\ constructed = TRUE
    /\ sheets_data = <<>>
    /\ workbook = <<>>
    /\ calls = <<>>
    /\ invoked = <<>>
    /\ files = <<>>
    /\ exit_code = <<>>

\* one call of a method of the auditor that returns: the listing calls it
\* issues, and the assignments to self.sheets_data that end it
Run(method, issued, tables) ==
    /\ pc = "caller"
    /\ Len(invoked) < MaxRuns
    /\ invoked' = Append(invoked, method)
    /\ calls' = calls \o issued
    /\ sheets_data' = DictSetAll(sheets_data, tables)
    /\ UNCHANGED << pc, region, inventory, now, constructed, workbook, files,
                    exit_code >>

\* audit_ebs_volumes (lines 59-126)
RunAuditEbsVolumes ==
    Run("audit_ebs_volumes", << "describe_volumes" >>,
        VolumeTables(inventory.Volumes))

\* audit_ebs_snapshots (lines 128-176)
RunAuditEbsSnapshots ==
    Run("audit_ebs_snapshots", << "describe_snapshots" >>,
        SnapshotTables(inventory.Snapshots, now))

\* audit_elastic_ips (lines 178-221)
RunAuditElasticIps ==
    Run("audit_elastic_ips", << "describe_addresses" >>,
        AddressTables(inventory.Addresses))

\* audit_ec2_instances (lines 223-255)
RunAuditEc2Instances ==
    Run("audit_ec2_instances", << "describe_instances" >>,
        InstanceTables(inventory.Reservations))

\* generate_cost_summary (lines 257-274)
RunGenerateCostSummary ==
    Run("generate_cost_summary", <<>>, SummaryTables)

NextCollectors ==
    \/ RunAuditEbsVolumes
    \/ RunAuditEbsSnapshots
    \/ RunAuditElasticIps
    \/ RunAuditEc2Instances
    \/ RunGenerateCostSummary

SpecCollectors == InitCollectors /\ [][NextCollectors]_vars

\* ------------------------------------------------------------- the claims
Range(f) == {f[i] : i \in DOMAIN f}

HasTable(name) == \E i \in 1..Len(sheets_data) : sheets_data[i].name = name

TableNamed(name) ==
    sheets_data[CHOOSE i \in 1..Len(sheets_data) : sheets_data[i].name = name]

\* the rows of a table whose first cell is the identifier id
RowsWithId(name, id) ==
    LET data == TableNamed(name).data
    IN  {i \in 1..Len(data) : data[i][1] = id}

\* the first table each listing call fills
FullTableOf(call) ==
    CASE call = "describe_volumes" -> "EBS_Volumes_All"
      [] call = "describe_snapshots" -> "EBS_Snapshots_All"
      [] call = "describe_addresses" -> "Elastic_IPs_All"
      [] call = "describe_instances" -> "EC2_Instances"

\* a listing call was issued and its collector stored nothing: the call failed
ListingCallFailed == \E i \in 1..Len(calls) : ~HasTable(FullTableOf(calls[i]))

\* C1: once one of the four listing calls has failed, main has returned exit
\* code 1, and write_excel_file was not and is not executed: no worksheet is
\* created and neither the workbook nor the recommendations file is written,
\* whatever the collectors before it stored.
C1_ListingFailureAborts ==
    ListingCallFailed =>
        /\ pc = "returned"
        /\ exit_code = << 1 >>
        /\ "write_excel_file" \notin Range(invoked)
        /\ workbook = <<>>
        /\ files = <<>>

\* a run in which the third listing call failed after two collectors stored
\* their tables
C1_Witness ==
    /\ ListingCallFailed
    /\ Len(calls) = 3
    /\ HasTable("EBS_Volumes_All") /\ HasTable("EBS_Snapshots_All")
    /\ Len(TableNamed("EBS_Volumes_All").data) > 0
    /\ pc = "returned"

\* the number of hyphen-delimited components of a region string
Components(r) == 1 + Cardinality({i \in 1..Len(r) : r[i] = "-"})

\* C2: a region of fewer than three hyphen-delimited components (the empty
\* string included) makes main return 1 at the validation: the auditor is
\* never constructed, no listing call is issued and no file is written. A
\* region of at least three components passes the validation: main goes on
\* to construct the auditor, and the audit starts (run_audit is at its first
\* collector) as soon as the auditor is constructed.
C2_RegionValidation ==
    /\ [](Components(region) < 3 =>
            /\ ~constructed /\ calls = <<>> /\ invoked = <<>> /\ files = <<>>
            /\ workbook = <<>> /\ sheets_data = <<>>
            /\ pc \in {"validate_region", "returned"}
            /\ (pc = "returned" => exit_code = << 1 >>))
    /\ [][pc = "validate_region" =>
            IF Components(region) < 3
            THEN pc' = "returned" /\ exit_code' = << 1 >>
            ELSE pc' = "construct" /\ exit_code' = <<>>]_vars
    /\ [][(Components(region) >= 3 /\ ~constructed /\ constructed') =>
            pc' = "audit_ebs_volumes"]_vars

\* a region of three components, one of them empty, has passed the validation
\* and the audit has started
C2_Witness ==
    /\ region = <<"a", "-", "-">>
    /\ Components(region) >= 3
    /\ constructed
    /\ pc = "audit_ebs_volumes"

\* C3 as claimed: every volume whose state is "available" has a row in
\* EBS_Volumes_Unattached and its row of EBS_Volumes_All has the instance id
\* "unattached", whatever its attachment list.
C3_AvailableIsUnattached ==
    HasTable("EBS_Volumes_All") =>
        \A i \in 1..Len(inventory.Volumes) :
            LET v == inventory.Volumes[i]
            IN  v.State = "available" =>
                    /\ RowsWithId("EBS_Volumes_Unattached", v.VolumeId) # {}
                    /\ \E r \in RowsWithId("EBS_Volumes_All", v.VolumeId) :
                          TableNamed("EBS_Volumes_All").data[r][6] = StrCell("unattached")

\* C3 amended: every volume whose state is "available" has a row in
\* EBS_Volumes_Unattached; its row of EBS_Volumes_All has the instance id
\* "unattached" when its attachment list is empty, and the instance id of
\* its first attachment when the list is not empty.
C3_AvailableListedUnattached ==
    HasTable("EBS_Volumes_All") =>
        \A i \in 1..Len(inventory.Volumes) :
            LET v == inventory.Volumes[i]
            IN  v.State = "available" =>
                    /\ RowsWithId("EBS_Volumes_Unattached", v.VolumeId) # {}
                    /\ RowsWithId("EBS_Volumes_All", v.VolumeId) # {}
                    /\ \A r \in RowsWithId("EBS_Volumes_All", v.VolumeId) :
                          TableNamed("EBS_Volumes_All").data[r][6] =
                             IF v.Attachments = <<>> THEN StrCell("unattached")
                             ELSE v.Attachments[1].InstanceId

\* the volume tables are stored for a listing that holds an available volume
\* with an attachment and an available volume without one
C3_Witness ==
    /\ HasTable("EBS_Volumes_All")
    /\ \E i, j \in 1..Len(inventory.Volumes) :
          /\ inventory.Volumes[i].State = "available"
          /\ inventory.Volumes[i].Attachments # <<>>
          /\ inventory.Volumes[j].State = "available"
          /\ inventory.Volumes[j].Attachments = <<>>

\* the documented price per GiB of a storage class, in thousandths of a dollar
DocumentedMilli(volume_type) ==
    CASE volume_type = "gp2" -> 100
      [] volume_type = "gp3" -> 80
      [] volume_type \in {"io1", "io2"} -> 125
      [] volume_type = "st1" -> 45
      [] volume_type = "sc1" -> 15
      [] OTHER -> 45

\* thousandths of a dollar rounded half-up to cents
HalfUpCents(milli) == (milli + 5) \div 10

\* C4: the estimated monthly cost of every row of EBS_Volumes_Unattached is
\* size x documented rate (0.045 for a class that is not in the table)
\* rounded half-up to two decimals.
C4_CostRoundedHalfUp ==
    HasTable("EBS_Volumes_Unattached") =>
        \A r \in 1..Len(TableNamed("EBS_Volumes_Unattached").data) :
            LET row == TableNamed("EBS_Volumes_Unattached").data[r]
            IN  row[6] = FloatCell(HalfUpCents(row[3].n * DocumentedMilli(row[4].s)))

\* C5: a volume has a row in EBS_GP2_Migration if and only if its storage
\* class is "gp2", whatever its state and attachment; the row carries
\* size x 0.10, size x 0.08 and their difference, which is not negative
\* (size 100: 10.00, 8.00, 2.00).
C5_Gp2Migration ==
    HasTable("EBS_GP2_Migration") =>
        \A i \in 1..Len(inventory.Volumes) :
            LET v == inventory.Volumes[i]
                rows == RowsWithId("EBS_GP2_Migration", v.VolumeId)
                data == TableNamed("EBS_GP2_Migration").data
            IN  /\ (rows # {}) <=> (v.VolumeType = "gp2")
                /\ Cardinality(rows) <= 1
                /\ \A r \in rows :
                      /\ data[r][6] = FloatCell(10 * v.Size)
                      /\ data[r][7] = FloatCell(8 * v.Size)
                      /\ data[r][8] = FloatCell(data[r][6].n - data[r][7].n)
                      /\ data[r][8].n >= 0
                      /\ (v.Size = 100 =>
                            /\ data[r][6].n = 1000 /\ data[r][7].n = 800
                            /\ data[r][8].n = 200)

\* the migration table holds an attached, in-use gp2 volume of 100 GiB, and
\* the listing holds a volume of another class
C5_Witness ==
    /\ HasTable("EBS_GP2_Migration")
    /\ \E i, j \in 1..Len(inventory.Volumes) :
          /\ inventory.Volumes[i].VolumeType = "gp2"
          /\ inventory.Volumes[i].Size = 100
          /\ inventory.Volumes[i].State = "in-use"
          /\ inventory.Volumes[i].Attachments # <<>>
          /\ RowsWithId("EBS_GP2_Migration", inventory.Volumes[i].VolumeId) # {}
          /\ inventory.Volumes[j].VolumeType # "gp2"

\* C6: every snapshot has a row in EBS_Snapshots_All, and it has a row in
\* EBS_Snapshots_Old if and only if its start time is strictly earlier than
\* the clock reading minus 90 days: started 91 days before now it is listed
\* as old, started 89 days before now or exactly at the cutoff it is not.
C6_OldSnapshots ==
    HasTable("EBS_Snapshots_All") =>
        \A i \in 1..Len(inventory.Snapshots) :
            LET sn == inventory.Snapshots[i]
                old == RowsWithId("EBS_Snapshots_Old", sn.SnapshotId)
            IN  /\ Cardinality(RowsWithId("EBS_Snapshots_All", sn.SnapshotId)) = 1
                /\ (old # {}) <=> (sn.StartTime < now - 90)
                /\ (sn.StartTime = now - 91 => old # {})
                /\ (sn.StartTime = now - 89 => old = {})
                /\ (sn.StartTime = now - 90 => old = {})

\* the snapshot tables are stored for a listing that holds a snapshot started
\* 91 days before now and one started exactly at the cutoff
C6_Witness ==
    /\ HasTable("EBS_Snapshots_Old")
    /\ \E i, j \in 1..Len(inventory.Snapshots) :
          /\ inventory.Snapshots[i].StartTime = now - 91
          /\ inventory.Snapshots[j].StartTime = now - 90
          /\ RowsWithId("EBS_Snapshots_Old", inventory.Snapshots[i].SnapshotId) # {}

\* C7: an address with no association id has status "UNATTACHED" and cost
\* 3.65 in Elastic_IPs_All and exactly one row, of cost 3.65, in
\* Elastic_IPs_Unattached; an address with an association id has status
\* "attached" and cost 0 and no row in Elastic_IPs_Unattached.
C7_ElasticIps ==
    HasTable("Elastic_IPs_All") =>
        \A i \in 1..Len(inventory.Addresses) :
            LET a == inventory.Addresses[i]
                all == TableNamed("Elastic_IPs_All").data
                rows == RowsWithId("Elastic_IPs_All", a.AllocationId)
                waste == RowsWithId("Elastic_IPs_Unattached", a.AllocationId)
            IN  /\ Cardinality(rows) = 1
                /\ \A r \in rows :
                      IF "AssociationId" \notin DOMAIN a
                      THEN /\ all[r][8] = StrCell("UNATTACHED")
                           /\ all[r][9] = FloatCell(365)
                           /\ Cardinality(waste) = 1
                           /\ \A w \in waste :
                                 TableNamed("Elastic_IPs_Unattached").data[w][5]
                                    = FloatCell(365)
                      ELSE /\ all[r][8] = StrCell("attached")
                           /\ all[r][9] = IntCell(0)
                           /\ waste = {}

\* the address tables are stored for a listing that holds an unassociated
\* address and an address associated with a network interface of no instance
C7_Witness ==
    /\ HasTable("Elastic_IPs_Unattached")
    /\ \E i, j \in 1..Len(inventory.Addresses) :
          /\ "AssociationId" \notin DOMAIN inventory.Addresses[i]
          /\ "AssociationId" \in DOMAIN inventory.Addresses[j]
          /\ "InstanceId" \notin DOMAIN inventory.Addresses[j]

\* C8: in every state of sheets_data, every row of every table has as many
\* cells as the table has headers.
C8_RowArity ==
    \A t \in 1..Len(sheets_data) :
        \A r \in 1..Len(sheets_data[t].data) :
            Len(sheets_data[t].data[r]) = Len(sheets_data[t].headers)

\* all nine tables are stored, and the two derived tables of reduced columns
\* and the migration table hold a row
C8_Witness ==
    /\ Len(sheets_data) = 9
    /\ Len(TableNamed("EBS_Snapshots_Old").data) > 0
    /\ Len(TableNamed("Elastic_IPs_Unattached").data) > 0
    /\ Len(TableNamed("EBS_GP2_Migration").data) > 0

IsPrefix(a, b) == Len(a) <= Len(b) /\ \A i \in 1..Len(a) : a[i] = b[i]

ListingOrder ==
    << "describe_volumes", "describe_snapshots", "describe_addresses",
       "describe_instances" >>

MethodOrder ==
    << "audit_ebs_volumes", "audit_ebs_snapshots", "audit_elastic_ips",
       "audit_ec2_instances", "generate_cost_summary", "generate_recommendations",
       "write_excel_file" >>

NineTables ==
    { "EBS_Volumes_All", "EBS_Volumes_Unattached", "EBS_GP2_Migration",
      "EBS_Snapshots_All", "EBS_Snapshots_Old", "Elastic_IPs_All",
      "Elastic_IPs_Unattached", "EC2_Instances", "Cost_Summary" }

\* C9: the listing calls issued are a prefix of volumes, snapshots, addresses,
\* instances (each at most once, in that order), a call being issued only once
\* the collectors of the calls before it have stored their tables; the methods
\* run are a prefix of the fixed order, so write_excel_file runs at most once,
\* and it runs only after the four collectors and the summary builder, when
\* sheets_data holds exactly the nine tables.
C9_FixedOrderOnce ==
    /\ IsPrefix(calls, ListingOrder)
    /\ IsPrefix(invoked, MethodOrder)
    /\ \A i \in 1..Len(calls) : \A j \in 1..(i - 1) : HasTable(FullTableOf(calls[j]))
    /\ "write_excel_file" \in Range(invoked) =>
          /\ calls = ListingOrder
          /\ invoked = MethodOrder
          /\ Len(sheets_data) = 9
          /\ {sheets_data[t].name : t \in 1..Len(sheets_data)} = NineTables

\* a run that has written its report and returned 0
C9_Witness ==
    /\ "write_excel_file" \in Range(invoked)
    /\ Len(files) = 2
    /\ exit_code = << 0 >>

\* C10: once write_excel_file has run, the workbook holds one sheet per table
\* of sheets_data, in the order of the tables; the sheet of a table has the
\* headers in row 1 in their order, data row i in row i + 1 with every cell
\* in its column, and no other cell; the workbook file holds these sheets,
\* and the recommendations file is written only after the workbook file.
C10_WriterPreservesTables ==
    /\ "write_excel_file" \in Range(invoked) =>
          /\ Len(workbook) = Len(sheets_data)
          /\ \A t \in 1..Len(sheets_data) :
                LET table == sheets_data[t]
                    cells == workbook[t].cells
                IN  /\ workbook[t].title = table.name
                    /\ \A col \in 1..Len(table.headers) :
                          /\ << 1, col >> \in DOMAIN cells
                          /\ cells[<< 1, col >>] = StrCell(table.headers[col])
                    /\ \A i \in 1..Len(table.data) :
                          \A col \in 1..Len(table.data[i]) :
                             /\ << i + 1, col >> \in DOMAIN cells
                             /\ cells[<< i + 1, col >>] = table.data[i][col]
                    /\ \A at \in DOMAIN cells :
                          /\ at[1] \in 1..(Len(table.data) + 1)
                          /\ at[2] \in 1..Len(table.headers)
    /\ \A f \in 1..Len(files) :
          /\ files[f].name = ".xlsx" => files[f].sheets = workbook
          /\ files[f].name = "_recommendations.txt" =>
                \E g \in 1..(f - 1) : files[g].name = ".xlsx" /\ files[g].complete

\* both files are written in full for tables of which one has two data rows
C10_Witness ==
    /\ Len(files) = 2
    /\ files[2].complete
    /\ Len(workbook) = 9
    /\ \E t \in 1..Len(sheets_data) :
          /\ sheets_data[t].name # "Cost_Summary"
          /\ Len(sheets_data[t].data) >= 2

\* the identifiers (first cells) of the rows of a table, in row order
TableIds(name) ==
    LET data == TableNamed(name).data
    IN  [i \in 1..Len(data) |-> data[i][1]]

RECURSIVE IsSubsequence(_, _)
\* a is b with some of its elements left out, the order kept
IsSubsequence(a, b) ==
    IF Len(a) = 0 THEN TRUE
    ELSE IF Len(b) = 0 THEN FALSE
    ELSE IF a[1] = b[1] THEN IsSubsequence(Tail(a), Tail(b))
    ELSE IsSubsequence(a, Tail(b))

\* a derived table selects from its full table, once both are stored
SelectsFrom(derived, full) ==
    HasTable(derived) =>
        /\ HasTable(full)
        /\ IsSubsequence(TableIds(derived), TableIds(full))

RECURSIVE ListedInstanceIds(_)
\* the instance ids of a listing of reservations, in listing order
ListedInstanceIds(reservations) ==
    IF Len(reservations) = 0 THEN <<>>
    ELSE [i \in 1..Len(reservations[1].Instances) |->
             reservations[1].Instances[i].InstanceId]
         \o ListedInstanceIds(Tail(reservations))

\* the table names each method is documented to store
TablesOf(method) ==
    CASE method = "audit_ebs_volumes" ->
            {"EBS_Volumes_All", "EBS_Volumes_Unattached", "EBS_GP2_Migration"}
      [] method = "audit_ebs_snapshots" -> {"EBS_Snapshots_All", "EBS_Snapshots_Old"}
      [] method = "audit_elastic_ips" -> {"Elastic_IPs_All", "Elastic_IPs_Unattached"}
      [] method = "audit_ec2_instances" -> {"EC2_Instances"}
      [] method = "generate_cost_summary" -> {"Cost_Summary"}
      [] OTHER -> {}

\* C11: after any sequence of runs of the collectors and the summary builder,
\* the identifiers of EBS_Volumes_Unattached and of EBS_GP2_Migration are
\* subsequences of those of EBS_Volumes_All, those of EBS_Snapshots_Old of
\* those of EBS_Snapshots_All, and those of Elastic_IPs_Unattached of those of
\* Elastic_IPs_All; each full table has exactly one row per listed record, in
\* listing order; and a run stores or replaces only tables of its own names:
\* every table stored before it stays at its place with its headers and rows,
\* and every table it adds bears one of its names.
C11_DerivedTablesAndFrame ==
    /\ [](/\ SelectsFrom("EBS_Volumes_Unattached", "EBS_Volumes_All")
          /\ SelectsFrom("EBS_GP2_Migration", "EBS_Volumes_All")
          /\ SelectsFrom("EBS_Snapshots_Old", "EBS_Snapshots_All")
          /\ SelectsFrom("Elastic_IPs_Unattached", "Elastic_IPs_All")
          /\ HasTable("EBS_Volumes_All") =>
                TableIds("EBS_Volumes_All")
                   = [i \in 1..Len(inventory.Volumes) |-> inventory.Volumes[i].VolumeId]
          /\ HasTable("EBS_Snapshots_All") =>
                TableIds("EBS_Snapshots_All")
                   = [i \in 1..Len(inventory.Snapshots) |->
                         inventory.Snapshots[i].SnapshotId]
          /\ HasTable("Elastic_IPs_All") =>
                TableIds("Elastic_IPs_All")
                   = [i \in 1..Len(inventory.Addresses) |->
                         inventory.Addresses[i].AllocationId]
          /\ HasTable("EC2_Instances") =>
                TableIds("EC2_Instances") = ListedInstanceIds(inventory.Reservations))
    /\ [][LET ran == {invoked'[i] : i \in (Len(invoked) + 1)..Len(invoked')}
              own == UNION {TablesOf(m) : m \in ran}
          IN  /\ Len(sheets_data') >= Len(sheets_data)
              /\ \A t \in 1..Len(sheets_data) :
                    \/ sheets_data'[t] = sheets_data[t]
                    \/ /\ sheets_data[t].name \in own
                       /\ sheets_data'[t].name = sheets_data[t].name
              /\ \A t \in (Len(sheets_data) + 1)..Len(sheets_data') :
                    sheets_data'[t].name \in own]_vars

\* the volume collector has run twice with the snapshot collector in between,
\* on a listing of volumes from which the two derived tables select some
\* records and leave out others, and a listing that holds an old snapshot
C11_Witness ==
    /\ invoked = << "audit_ebs_volumes", "audit_ebs_snapshots", "audit_ebs_volumes" >>
    /\ Len(TableIds("EBS_Volumes_Unattached")) > 0
    /\ Len(TableIds("EBS_Volumes_Unattached")) < Len(TableIds("EBS_Volumes_All"))
    /\ Len(TableIds("EBS_GP2_Migration")) > 0
    /\ Len(TableIds("EBS_GP2_Migration")) < Len(TableIds("EBS_Volumes_All"))
    /\ Len(TableIds("EBS_Snapshots_Old")) > 0

=============================================================================
